---- MODULE Spec2Model ----
(***************************************************************************)
(* Model of inseq/attr/feat/attribution_utils.py: the step-score registry  *)
(* (STEP_SCORES_MAP), the position check, the keyword-argument split of    *)
(* extract_args, the positional layout built by format_attribute_args and  *)
(* the token slicing of get_split_targets.                                 *)
(*                                                                         *)
(* Python values are modelled as follows.                                  *)
(*   - a dict is a sequence of [k, v] records in insertion order;          *)
(*   - Optional[int] is <<>> (None) or <<n>>;                              *)
(*   - a tensor or any other positional argument handed to the attribution *)
(*     library is a record [kind, name, shape, items];                     *)
(*   - a callable is the string naming it, its parameters are Signature.   *)
(***************************************************************************)
EXTENDS Integers, Sequences, FiniteSets, TLC

VARIABLES
    STEP_SCORES_MAP,        \* the module-level registry, identifier -> function
    step_scores_aggregate,  \* DEFAULT_ATTRIBUTION_AGGREGATE_DICT["step_scores"]
    registered,             \* history: every register_step_score call so far, identifier -> last fn
    op,                     \* the operation that ran last
    args,                   \* its arguments
    ret                     \* what it returned or raised

vars == <<STEP_SCORES_MAP, step_scores_aggregate, registered, op, args, ret>>

----------------------------------------------------------------------------
(* Bounds of the model *)

MaxLen == 4
MaxBatch == 2
MaxStepScores == 2

----------------------------------------------------------------------------
(* Python dicts: insertion-ordered sequences of [k, v] *)

EmptyDict == <<>>

RECURSIVE SeqToSet(_)
SeqToSet(s) == IF s = <<>> THEN {} ELSE {Head(s)} \cup SeqToSet(Tail(s))

DictKeys(d) == [i \in DOMAIN d |-> d[i].k]

DictValues(d) == [i \in DOMAIN d |-> d[i].v]

KeySet(d) == {d[i].k : i \in DOMAIN d}

DictHas(d, key) == key \in KeySet(d)

DictGet(d, key) == d[CHOOSE i \in DOMAIN d : d[i].k = key].v

DictSet(d, key, val) ==
    IF DictHas(d, key)
    THEN [i \in DOMAIN d |-> IF d[i].k = key THEN [k |-> key, v |-> val] ELSE d[i]]
    ELSE Append(d, [k |-> key, v |-> val])

RECURSIVE DictUpdate(_, _)
DictUpdate(d, e) ==
    IF e = <<>> THEN d ELSE DictUpdate(DictSet(d, Head(e).k, Head(e).v), Tail(e))

(* {k: v for k, v in d.items() if k in keys} *)
DictFilter(d, keys) == SelectSeq(d, LAMBDA item : item.k \in keys)

----------------------------------------------------------------------------
(* Optional[int] *)

None == <<>>

Some(n) == <<n>>

IsNone(x) == x = <<>>

ValueOf(x) == x[1]

----------------------------------------------------------------------------
(* What an operation hands back: the exception it raised ("None" when it   *)
(* returned) and the value it returned.                                    *)

Returned(value) == [raised |-> "None", value |-> value]

Raised(exc) == [raised |-> exc, value |-> <<>>]

NoArgs == <<>>

----------------------------------------------------------------------------
(* check_attribute_positions *)

DefaultAttrPosStart == 1

check_attribute_positions_bad_cap(max_length, attr_pos_start, attr_pos_end) ==
    LET start == IF IsNone(attr_pos_start) THEN DefaultAttrPosStart ELSE ValueOf(attr_pos_start)
        end == IF IsNone(attr_pos_end) THEN max_length ELSE ValueOf(attr_pos_end)
    IN  IF start > end \/ start < 1 THEN Raised("ValueError")
        ELSE IF start = end THEN Raised("ValueError")
        ELSE Returned(<<start, end>>)

check_attribute_positions(max_length, attr_pos_start, attr_pos_end) ==
    LET start == IF IsNone(attr_pos_start) THEN DefaultAttrPosStart ELSE ValueOf(attr_pos_start)
        end == IF IsNone(attr_pos_end) \/ ValueOf(attr_pos_end) > max_length
               THEN max_length ELSE ValueOf(attr_pos_end)
    IN  IF start > end \/ start < 1 THEN Raised("ValueError")
        ELSE IF start = end THEN Raised("ValueError")
        ELSE Returned(<<start, end>>)

OptionalPositions == {None} \cup {Some(n) : n \in -1 .. MaxLen + 1}

PositionArgs ==
    [max_length : 0 .. MaxLen, attr_pos_start : OptionalPositions, attr_pos_end : OptionalPositions]

CheckAttributePositions(a) ==
    /\ op' = "check_attribute_positions"
    /\ args' = a
    /\ ret' = check_attribute_positions(a.max_length, a.attr_pos_start, a.attr_pos_end)
    /\ UNCHANGED <<STEP_SCORES_MAP, step_scores_aggregate, registered>>

----------------------------------------------------------------------------
(* The step-score registry *)

InitialStepScoresMap ==
    << [k |-> "probability",  v |-> "output2prob"],
       [k |-> "entropy",      v |-> "output2ent"],
       [k |-> "crossentropy", v |-> "output2ce"],
       [k |-> "perplexity",   v |-> "output2ppl"] >>

(* The probability score ships with a span_aggregate entry. *)
InitialStepScoresAggregate ==
    << [k |-> "span_aggregate", v |-> << [k |-> "probability", v |-> "prod"] >>] >>

(* for agg_name, agg_fn in aggregate_map.items(): ... *)
RECURSIVE RegisterAggregates(_, _, _)
RegisterAggregates(aggregate, items, identifier) ==
    IF items = <<>> THEN aggregate
    ELSE LET agg_name == Head(items).k
             agg_fn   == Head(items).v
             present  == IF DictHas(aggregate, agg_name)
                         THEN aggregate
                         ELSE DictSet(aggregate, agg_name, EmptyDict)
             updated  == DictSet(present, agg_name,
                                 DictSet(DictGet(present, agg_name), identifier, agg_fn))
         IN  RegisterAggregates(updated, Tail(items), identifier)

register_step_score_keep_first(registry, fn, identifier) ==
    IF DictHas(registry, identifier) THEN registry ELSE DictSet(registry, identifier, fn)

(* STEP_SCORES_MAP[identifier] = fn *)
register_step_score(registry, fn, identifier) == DictSet(registry, identifier, fn)

RegisterStepScore(fn, identifier, aggregate_map) ==
    /\ op' = "register_step_score"
    /\ args' = [fn |-> fn, identifier |-> identifier, aggregate_map |-> aggregate_map]
    /\ STEP_SCORES_MAP' = register_step_score(STEP_SCORES_MAP, fn, identifier)
    /\ step_scores_aggregate' =
          IF IsNone(aggregate_map) THEN step_scores_aggregate
          ELSE RegisterAggregates(step_scores_aggregate, ValueOf(aggregate_map), identifier)
    /\ registered' = [id \in DOMAIN registered \cup {identifier} |->
                          IF id = identifier THEN fn ELSE registered[id]]
    /\ ret' = Returned(<<>>)

list_step_scores_shared(registry) == [items |-> DictKeys(registry), shares_registry |-> TRUE]

(* list(STEP_SCORES_MAP.keys()): a new list object holding the keys *)
list_step_scores(registry) == [items |-> DictKeys(registry), shares_registry |-> FALSE]

ListStepScores ==
    /\ op' = "list_step_scores"
    /\ args' = NoArgs
    /\ ret' = Returned(list_step_scores(STEP_SCORES_MAP))
    /\ UNCHANGED <<STEP_SCORES_MAP, step_scores_aggregate, registered>>

(* The caller of list_step_scores drops the last element of the list it got.
   Only an object shared with the registry would carry the change over. *)
CallerMutatesList ==
    /\ op = "list_step_scores"
    /\ ret.value.items # <<>>
    /\ op' = "caller_mutates_list"
    /\ args' = NoArgs
    /\ LET shorter == SubSeq(ret.value.items, 1, Len(ret.value.items) - 1)
       IN  /\ ret' = Returned([ret.value EXCEPT !.items = shorter])
           /\ STEP_SCORES_MAP' =
                 IF ret.value.shares_registry
                 THEN DictFilter(STEP_SCORES_MAP, SeqToSet(shorter))
                 ELSE STEP_SCORES_MAP
    /\ UNCHANGED <<step_scores_aggregate, registered>>

(* The keyword arguments get_step_scores always passes to the score function. *)
StepScoreCallArgs ==
    {"attribution_model", "forward_output", "encoder_input_ids", "decoder_input_ids",
     "encoder_input_embeds", "decoder_input_embeds", "target_ids",
     "encoder_attention_mask", "decoder_attention_mask"}

get_step_scores(registry, attribution_model, score_identifier, step_scores_args) ==
    IF attribution_model = "None" THEN Raised("ValueError")
    ELSE IF ~DictHas(registry, score_identifier) THEN Raised("KeyError")
    ELSE IF KeySet(step_scores_args) \cap StepScoreCallArgs # {} THEN Raised("TypeError")
    ELSE Returned([fn |-> DictGet(registry, score_identifier),
                   kwargs |-> StepScoreCallArgs \cup KeySet(step_scores_args)])

GetStepScores(attribution_model, score_identifier, step_scores_args) ==
    /\ op' = "get_step_scores"
    /\ args' = [attribution_model |-> attribution_model,
                score_identifier |-> score_identifier,
                step_scores_args |-> step_scores_args]
    /\ ret' = get_step_scores(STEP_SCORES_MAP, attribution_model, score_identifier,
                              step_scores_args)
    /\ UNCHANGED <<STEP_SCORES_MAP, step_scores_aggregate, registered>>

----------------------------------------------------------------------------
(* extract_args *)

Scalar(s) == [scalar |-> s, dict |-> <<>>]

DictValue(d) == [scalar |-> "", dict |-> d]

ReservedKwargs == {"attribution_args", "attributed_fn_args", "step_scores_args"}

(* inspect.signature(func).parameters of the callables used in the model *)
Signature(func) ==
    CASE func = "fn1" -> {"attribution_model", "forward_output", "target_ids", "alpha"}
      [] func = "fn2" -> {"forward_output", "target_ids"}
      [] func = "integrated_gradients" -> {"inputs", "baselines", "n_steps"}
      [] func = "saliency" -> {"inputs"}
      [] OTHER -> {"attribution_model", "forward_output", "target_ids"}

(* utils.extract_signature_args: the arguments of full_args that func's
   signature names and exclude_args does not; with return_remaining also
   the rest of full_args. *)
extract_signature_args(full_args, func, exclude_args, return_remaining) ==
    LET extracted_args ==
            DictFilter(full_args, Signature(func) \ SeqToSet(exclude_args))
        remaining ==
            DictFilter(full_args, KeySet(full_args) \ KeySet(extracted_args))
    IN  IF return_remaining THEN <<extracted_args, remaining>> ELSE extracted_args

(* FeatureAttribution.get_attribution_args: what the method's attribute()
   takes, and the rest. *)
get_attribution_args(attribution_method, kwargs) ==
    extract_signature_args(kwargs, attribution_method, <<>>, TRUE)

(* kwargs.pop(key, {}) *)
PopOrEmpty(kwargs, key) == IF DictHas(kwargs, key) THEN DictGet(kwargs, key).dict ELSE EmptyDict

RECURSIVE ExtractStepScoresArgs_skip_unknown(_, _, _, _, _)
ExtractStepScoresArgs_skip_unknown(registry, step_scores, kwargs, default_args, extra_step_scores_args) ==
    IF step_scores = <<>> THEN <<TRUE, extra_step_scores_args>>
    ELSE IF ~DictHas(registry, Head(step_scores))
    THEN ExtractStepScoresArgs_skip_unknown(registry, Tail(step_scores), kwargs, default_args,
                                            extra_step_scores_args)
    ELSE ExtractStepScoresArgs_skip_unknown(
             registry, Tail(step_scores), kwargs, default_args,
             DictUpdate(extra_step_scores_args,
                        extract_signature_args(kwargs, DictGet(registry, Head(step_scores)),
                                               default_args, FALSE)))

(* for step_score in step_scores: ...  Returns <<TRUE, extra_step_scores_args>>,
   or <<FALSE, <<>>>> when a step score is not registered. *)
RECURSIVE ExtractStepScoresArgs(_, _, _, _, _)
ExtractStepScoresArgs(registry, step_scores, kwargs, default_args, extra_step_scores_args) ==
    IF step_scores = <<>> THEN <<TRUE, extra_step_scores_args>>
    ELSE IF ~DictHas(registry, Head(step_scores)) THEN <<FALSE, <<>>>>
    ELSE ExtractStepScoresArgs(
             registry, Tail(step_scores), kwargs, default_args,
             DictUpdate(extra_step_scores_args,
                        extract_signature_args(kwargs, DictGet(registry, Head(step_scores)),
                                               default_args, FALSE)))

UnusedByAny(attribution_unused_args, attributed_fn_unused_args, step_scores_unused_args) ==
    KeySet(attribution_unused_args) \cup KeySet(attributed_fn_unused_args)
        \cup KeySet(step_scores_unused_args)

(* attribution_unused_args.keys() & attributed_fn_unused_args.keys()
   & step_scores_unused_args.keys() *)
UnusedByAll(attribution_unused_args, attributed_fn_unused_args, step_scores_unused_args) ==
    KeySet(attribution_unused_args) \cap KeySet(attributed_fn_unused_args)
        \cap KeySet(step_scores_unused_args)

extract_args(registry, attribution_method, attributed_fn, step_scores, default_args, all_kwargs) ==
    LET attribution_args   == PopOrEmpty(all_kwargs, "attribution_args")
        attributed_fn_args == PopOrEmpty(all_kwargs, "attributed_fn_args")
        step_scores_args   == PopOrEmpty(all_kwargs, "step_scores_args")
        kwargs == DictFilter(all_kwargs, KeySet(all_kwargs) \ ReservedKwargs)
        from_method == get_attribution_args(attribution_method, kwargs)
        extra_attribution_args  == from_method[1]
        attribution_unused_args == from_method[2]
        from_fn == extract_signature_args(kwargs, attributed_fn, default_args, TRUE)
        extra_attributed_fn_args  == from_fn[1]
        attributed_fn_unused_args == from_fn[2]
        loop == ExtractStepScoresArgs(registry, step_scores, kwargs, default_args, EmptyDict)
        extra_step_scores_args == loop[2]
        step_scores_unused_args ==
            DictFilter(kwargs, KeySet(kwargs) \ KeySet(extra_step_scores_args))
        unused_args ==
            DictFilter(kwargs, UnusedByAll(attribution_unused_args, attributed_fn_unused_args,
                                           step_scores_unused_args))
    IN  IF ~loop[1] THEN Raised("AttributeError")
        ELSE Returned([warning |-> IF unused_args # <<>> THEN <<unused_args>> ELSE <<>>,
                       attribution_args |-> DictUpdate(attribution_args, extra_attribution_args),
                       attributed_fn_args |-> DictUpdate(attributed_fn_args, extra_attributed_fn_args),
                       step_scores_args |-> DictUpdate(step_scores_args, extra_step_scores_args)])

ExtractArgs(attribution_method, attributed_fn, step_scores, default_args, kwargs) ==
    /\ op' = "extract_args"
    /\ args' = [attribution_method |-> attribution_method, attributed_fn |-> attributed_fn,
                step_scores |-> step_scores, default_args |-> default_args, kwargs |-> kwargs]
    /\ ret' = extract_args(STEP_SCORES_MAP, attribution_method, attributed_fn, step_scores,
                           default_args, kwargs)
    /\ UNCHANGED <<STEP_SCORES_MAP, step_scores_aggregate, registered>>

----------------------------------------------------------------------------
(* format_attribute_args: the positional arguments handed to the           *)
(* attribution library                                                     *)

HiddenSize == 2

Tensor(owner, name, shape) ==
    [kind |-> "tensor", owner |-> owner, name |-> name, shape |-> shape, items |-> <<>>]

Callable(fn) ==
    [kind |-> "callable", owner |-> "", name |-> fn, shape |-> <<>>, items |-> <<>>]

Bool(b) ==
    [kind |-> "bool", owner |-> "", name |-> IF b THEN "True" ELSE "False",
     shape |-> <<>>, items |-> <<>>]

ListOf(items) ==
    [kind |-> "list", owner |-> "", name |-> "", shape |-> <<>>, items |-> items]

Plain(value) ==
    [kind |-> "value", owner |-> "", name |-> value, shape |-> <<>>, items |-> <<>>]

(* torch.Tensor.unsqueeze(-1): a new last dimension of size 1 *)
UnsqueezeLast(t) == [t EXCEPT !.shape = Append(t.shape, 1)]

(* The tensors of one side of a batch (data.batch): batch_size sequences of
   seq_len positions. *)
BatchSide(owner, batch_size, seq_len) ==
    [input_ids       |-> Tensor(owner, "input_ids", <<batch_size, seq_len>>),
     input_embeds    |-> Tensor(owner, "input_embeds", <<batch_size, seq_len, HiddenSize>>),
     baseline_ids    |-> Tensor(owner, "baseline_ids", <<batch_size, seq_len>>),
     baseline_embeds |-> Tensor(owner, "baseline_embeds", <<batch_size, seq_len, HiddenSize>>),
     attention_mask  |-> Tensor(owner, "attention_mask", <<batch_size, seq_len>>)]

EncoderDecoderBatch(batch_size, seq_len) ==
    [sources |-> BatchSide("sources", batch_size, seq_len),
     targets |-> BatchSide("targets", batch_size, seq_len)]

DecoderOnlyBatch(batch_size, seq_len) == BatchSide("batch", batch_size, seq_len)

format_attribute_args_encoder_decoder_target_last(batch, target_ids, attributed_fn, attribute_target, attributed_fn_args, is_layer_attribution) ==
    LET inputs0 == IF is_layer_attribution THEN <<batch.sources.input_ids>>
                   ELSE <<batch.sources.input_embeds>>
        baselines0 == IF is_layer_attribution THEN <<batch.sources.baseline_ids>>
                      ELSE <<batch.sources.baseline_embeds>>
        inputs == IF attribute_target THEN inputs0 \o <<batch.targets.input_embeds>>
                  ELSE inputs0
        baselines == IF attribute_target THEN baselines0 \o <<batch.targets.baseline_embeds>>
                     ELSE baselines0
        additional_forward_args ==
            << batch.sources.input_ids,
               batch.targets.input_ids,
               UnsqueezeLast(target_ids),
               Callable(attributed_fn),
               batch.sources.attention_mask,
               batch.targets.attention_mask,
               Bool(~is_layer_attribution),
               ListOf(DictKeys(attributed_fn_args)) >>
            \o DictValues(attributed_fn_args)
    IN  << [inputs |-> inputs,
            additional_forward_args |->
                IF ~attribute_target
                THEN additional_forward_args \o <<batch.targets.input_embeds>>
                ELSE additional_forward_args],
           baselines >>

format_attribute_args_encoder_decoder(batch, target_ids, attributed_fn, attribute_target, attributed_fn_args, is_layer_attribution) ==
    LET inputs0 == IF is_layer_attribution THEN <<batch.sources.input_ids>>
                   ELSE <<batch.sources.input_embeds>>
        baselines0 == IF is_layer_attribution THEN <<batch.sources.baseline_ids>>
                      ELSE <<batch.sources.baseline_embeds>>
        inputs == IF attribute_target THEN inputs0 \o <<batch.targets.input_embeds>>
                  ELSE inputs0
        baselines == IF attribute_target THEN baselines0 \o <<batch.targets.baseline_embeds>>
                     ELSE baselines0
        additional_forward_args ==
            << batch.sources.input_ids,
               batch.targets.input_ids,
               UnsqueezeLast(target_ids),
               Callable(attributed_fn),
               batch.sources.attention_mask,
               batch.targets.attention_mask,
               Bool(~is_layer_attribution),
               ListOf(DictKeys(attributed_fn_args)) >>
            \o DictValues(attributed_fn_args)
    IN  << [inputs |-> inputs,
            additional_forward_args |->
                IF ~attribute_target
                THEN <<batch.targets.input_embeds>> \o additional_forward_args
                ELSE additional_forward_args],
           baselines >>

format_attribute_args_decoder_only(batch, target_ids, attributed_fn, attributed_fn_args, is_layer_attribution) ==
    LET inputs == IF is_layer_attribution THEN <<batch.input_ids>> ELSE <<batch.input_embeds>>
        baselines == IF is_layer_attribution THEN <<batch.baseline_ids>>
                     ELSE <<batch.baseline_embeds>>
    IN  << [inputs |-> inputs,
            additional_forward_args |->
                << batch.input_ids,
                   UnsqueezeLast(target_ids),
                   Callable(attributed_fn),
                   batch.attention_mask,
                   Bool(~is_layer_attribution),
                   ListOf(DictKeys(attributed_fn_args)) >>
                \o DictValues(attributed_fn_args)],
           baselines >>

format_attribute_args_always_baselines(batch, target_ids, attributed_fn, attribute_target, attributed_fn_args, is_layer_attribution, use_baseline, is_encoder_decoder) ==
    LET formatted ==
            IF is_encoder_decoder
            THEN format_attribute_args_encoder_decoder(batch, target_ids, attributed_fn,
                                                       attribute_target, attributed_fn_args,
                                                       is_layer_attribution)
            ELSE format_attribute_args_decoder_only(batch, target_ids, attributed_fn,
                                                    attributed_fn_args, is_layer_attribution)
    IN  [inputs |-> formatted[1].inputs,
         additional_forward_args |-> formatted[1].additional_forward_args,
         baselines |-> formatted[2]]

format_attribute_args(batch, target_ids, attributed_fn, attribute_target, attributed_fn_args, is_layer_attribution, use_baseline, is_encoder_decoder) ==
    LET formatted ==
            IF is_encoder_decoder
            THEN format_attribute_args_encoder_decoder(batch, target_ids, attributed_fn,
                                                       attribute_target, attributed_fn_args,
                                                       is_layer_attribution)
            ELSE format_attribute_args_decoder_only(batch, target_ids, attributed_fn,
                                                    attributed_fn_args, is_layer_attribution)
        attribute_fn_args == formatted[1]
        baselines == formatted[2]
    IN  IF use_baseline
        THEN [inputs |-> attribute_fn_args.inputs,
              additional_forward_args |-> attribute_fn_args.additional_forward_args,
              baselines |-> baselines]
        ELSE attribute_fn_args

FormatAttributeArgs(a) ==
    /\ op' = "format_attribute_args"
    /\ args' = a
    /\ ret' = Returned(format_attribute_args(a.batch, a.target_ids, a.attributed_fn,
                                             a.attribute_target, a.attributed_fn_args,
                                             a.is_layer_attribution, a.use_baseline,
                                             a.is_encoder_decoder))
    /\ UNCHANGED <<STEP_SCORES_MAP, step_scores_aggregate, registered>>

----------------------------------------------------------------------------
(* tok2string and get_split_targets *)

(* Where Python puts a slice index i in a sequence of n elements. *)
SliceIndex(i, n) ==
    IF i < 0 THEN (IF i + n < 0 THEN 0 ELSE i + n) ELSE (IF i > n THEN n ELSE i)

(* tokens[start:end] *)
PySlice(tokens, start, end) ==
    SubSeq(tokens, SliceIndex(start, Len(tokens)) + 1, SliceIndex(end, Len(tokens)))

(* AttributionModel.convert_tokens_to_string: one string per token list.  A
   string is kept as the tokens it was joined from, with the flag that
   chose the tokenizer side. *)
convert_tokens_to_string(token_lists, as_targets) ==
    [tokens |-> token_lists, as_targets |-> as_targets]

tok2string(token_lists, start, end, as_targets) ==
    LET starts == [i \in DOMAIN token_lists |-> IF IsNone(start) THEN 0 ELSE ValueOf(start)]
        ends == [i \in DOMAIN token_lists |->
                    IF IsNone(end) THEN Len(token_lists[i]) ELSE ValueOf(end)]
    IN  convert_tokens_to_string(
            [i \in DOMAIN token_lists |-> PySlice(token_lists[i], starts[i], ends[i])],
            as_targets)

get_split_targets_off_by_one(targets, start, end, step) ==
    << tok2string(targets, None, Some(start), TRUE),
       tok2string(targets, Some(start), Some(step + 1), TRUE),
       tok2string(targets, Some(step + 2), Some(end), TRUE),
       tok2string(targets, Some(end), None, TRUE) >>

get_split_targets(targets, start, end, step) ==
    << tok2string(targets, None, Some(start), TRUE),
       tok2string(targets, Some(start), Some(step + 1), TRUE),
       tok2string(targets, Some(step + 1), Some(end), TRUE),
       tok2string(targets, Some(end), None, TRUE) >>

GetSplitTargets(a) ==
    /\ op' = "get_split_targets"
    /\ args' = a
    /\ ret' = Returned(get_split_targets(a.targets, a.start, a.end, a.step))
    /\ UNCHANGED <<STEP_SCORES_MAP, step_scores_aggregate, registered>>

Tok2String(a) ==
    /\ op' = "tok2string"
    /\ args' = a
    /\ ret' = Returned(tok2string(a.token_lists, a.start, a.end, a.as_targets))
    /\ UNCHANGED <<STEP_SCORES_MAP, step_scores_aggregate, registered>>

----------------------------------------------------------------------------
(* Inputs *)

BuiltinIdentifiers == {"probability", "entropy", "crossentropy", "perplexity"}

UserFunctions == {"fn1", "fn2"}

RegisterIdentifiers == {"probability", "custom1"}

RequestedIdentifiers == {"probability", "custom1", "custom2"}

AggregateMaps ==
    {None,
     Some(<< [k |-> "span_aggregate", v |-> "agg1"], [k |-> "pair_aggregate", v |-> "agg2"] >>)}

(* Lists of up to MaxStepScores different identifiers. *)
StepScoreLists ==
    UNION {{l \in [1 .. n -> RequestedIdentifiers] : \A i, j \in 1 .. n : l[i] = l[j] => i = j} :
           n \in 0 .. MaxStepScores}

FreeKwargNames == <<"n_steps", "alpha", "target_ids">>

ReservedDicts ==
    << [k |-> "attribution_args",   v |-> DictValue(<< [k |-> "n_steps", v |-> Scalar("from_dict")] >>)],
       [k |-> "attributed_fn_args", v |-> DictValue(<< [k |-> "alpha", v |-> Scalar("from_dict")] >>)],
       [k |-> "step_scores_args",   v |-> DictValue(EmptyDict)] >>

(* A call's **kwargs: the chosen free keyword arguments, with or without
   the three reserved dicts. *)
Kwargs(chosen, reserved) ==
    SelectSeq([i \in DOMAIN FreeKwargNames |->
                  [k |-> FreeKwargNames[i], v |-> Scalar("from_kwarg")]],
              LAMBDA item : item.k \in chosen)
        \o (IF reserved THEN ReservedDicts ELSE <<>>)

KwargsChoices ==
    {Kwargs(chosen, FALSE) : chosen \in SUBSET SeqToSet(FreeKwargNames)}
        \cup {Kwargs(chosen, TRUE) : chosen \in {{}, {"n_steps", "alpha"}, SeqToSet(FreeKwargNames)}}

DefaultArgs == <<"attribution_model", "forward_output", "target_ids">>

AttributedFnArgsChoices ==
    {EmptyDict,
     << [k |-> "alpha", v |-> Plain("0.5")] >>,
     << [k |-> "beta", v |-> Plain("7")] >>,
     << [k |-> "alpha", v |-> Plain("0.5")], [k |-> "beta", v |-> Plain("7")] >>,
     << [k |-> "beta", v |-> Plain("7")], [k |-> "alpha", v |-> Plain("0.5")] >>}

FormatArgsFor(batch_sizes, fn_args_choices) ==
    {[batch |-> IF ed THEN EncoderDecoderBatch(b, MaxLen) ELSE DecoderOnlyBatch(b, MaxLen),
      target_ids |-> Tensor("", "target_ids", <<b>>),
      attributed_fn |-> "output2prob",
      attribute_target |-> at,
      attributed_fn_args |-> fa,
      is_layer_attribution |-> la,
      use_baseline |-> ub,
      is_encoder_decoder |-> ed] :
     b \in batch_sizes, fa \in fn_args_choices,
     at \in BOOLEAN, la \in BOOLEAN, ub \in BOOLEAN, ed \in BOOLEAN}

FormatArgs == FormatArgsFor(1 .. MaxBatch, AttributedFnArgsChoices)

(* A target sentence of n tokens; the token at position i is named after i. *)
Tokens(n) == [i \in 1 .. n |-> ToString(i)]

TokenBatches == UNION {[1 .. b -> {Tokens(n) : n \in 0 .. MaxLen}] : b \in 1 .. MaxBatch}

SplitArgs ==
    [targets : TokenBatches, start : -1 .. MaxLen + 1, end : -1 .. MaxLen + 1, step : -1 .. MaxLen]

----------------------------------------------------------------------------
(* The module after import, and a session of calls on it *)

Imported ==
    /\ STEP_SCORES_MAP = InitialStepScoresMap
    /\ step_scores_aggregate = InitialStepScoresAggregate
    /\ registered = <<>>

Init ==
    /\ Imported
    /\ op = "import"
    /\ args = NoArgs
    /\ ret = Returned(<<>>)

Register ==
    \E fn \in UserFunctions, identifier \in RegisterIdentifiers, aggregate_map \in AggregateMaps :
        RegisterStepScore(fn, identifier, aggregate_map)

Extract ==
    \E step_scores \in StepScoreLists,
       kwargs \in {Kwargs({}, FALSE), Kwargs(SeqToSet(FreeKwargNames), TRUE)} :
        ExtractArgs("integrated_gradients", "output2prob", step_scores, DefaultArgs, kwargs)

StepScores ==
    \E attribution_model \in {"None", "model"},
       score_identifier \in RequestedIdentifiers,
       step_scores_args \in {EmptyDict,
                             << [k |-> "alpha", v |-> Scalar("0.5")] >>,
                             << [k |-> "target_ids", v |-> Scalar("0")] >>} :
        GetStepScores(attribution_model, score_identifier, step_scores_args)

CheckPositions ==
    \E a \in {p \in PositionArgs :
                 /\ p.max_length = MaxLen
                 /\ p.attr_pos_start \in {None, Some(0)}
                 /\ p.attr_pos_end \in {None, Some(MaxLen + 1)}} :
        CheckAttributePositions(a)

Format ==
    \E a \in FormatArgsFor({1}, {EmptyDict}) : FormatAttributeArgs(a)

SplitTargets ==
    \E a \in {q \in SplitArgs : q.targets = <<Tokens(MaxLen)>> /\ q.start = 1 /\ q.end = MaxLen} :
        GetSplitTargets(a)

Stringify ==
    \E a \in [token_lists : {<<Tokens(MaxLen)>>}, start : {None, Some(1)}, end : {None},
              as_targets : BOOLEAN] :
        Tok2String(a)

Next ==
    \/ Register
    \/ ListStepScores
    \/ CallerMutatesList
    \/ Extract
    \/ StepScores
    \/ CheckPositions
    \/ Format
    \/ SplitTargets
    \/ Stringify

Spec == Init /\ [][Next]_vars

----------------------------------------------------------------------------
(* extract_args under every choice of keyword arguments, between plain
   registrations *)

RegisterPlain ==
    \E fn \in UserFunctions, identifier \in RegisterIdentifiers :
        RegisterStepScore(fn, identifier, None)

ExtractAny ==
    \E attribution_method \in {"integrated_gradients", "saliency"},
       attributed_fn \in {"output2prob", "fn1"},
       step_scores \in StepScoreLists,
       kwargs \in KwargsChoices :
        ExtractArgs(attribution_method, attributed_fn, step_scores, DefaultArgs, kwargs)

NextExtract == RegisterPlain \/ ExtractAny

SpecExtract == Init /\ [][NextExtract]_vars

----------------------------------------------------------------------------
(* The pure functions, each applied once to inputs drawn at the start *)

InitPositions == Imported /\ op = "pending" /\ args \in PositionArgs /\ ret = Returned(<<>>)

ApplyCheckAttributePositions == op = "pending" /\ CheckAttributePositions(args)

SpecPositions == InitPositions /\ [][ApplyCheckAttributePositions]_vars

InitFormat == Imported /\ op = "pending" /\ args \in FormatArgs /\ ret = Returned(<<>>)

ApplyFormatAttributeArgs == op = "pending" /\ FormatAttributeArgs(args)

SpecFormat == InitFormat /\ [][ApplyFormatAttributeArgs]_vars

InitSplit == Imported /\ op = "pending" /\ args \in SplitArgs /\ ret = Returned(<<>>)

ApplyGetSplitTargets == op = "pending" /\ GetSplitTargets(args)

SpecSplit == InitSplit /\ [][ApplyGetSplitTargets]_vars

----------------------------------------------------------------------------
(* Properties *)

(* The start and end a call works with once the defaults are applied and the
   end is capped at max_length. *)
EffectiveStart(a) == IF IsNone(a.attr_pos_start) THEN 1 ELSE ValueOf(a.attr_pos_start)

EffectiveEnd(a) ==
    IF IsNone(a.attr_pos_end) \/ ValueOf(a.attr_pos_end) > a.max_length
    THEN a.max_length ELSE ValueOf(a.attr_pos_end)

(* C1: check_attribute_positions raises ValueError exactly when the start is
   greater or equal than the end or is < 0 (after defaults and capping), and
   otherwise returns the start and end positions. *)
C1_RaisesIffStartGeEndOrNegative ==
    op = "check_attribute_positions" =>
        /\ (ret.raised = "ValueError") <=>
               (EffectiveStart(args) >= EffectiveEnd(args) \/ EffectiveStart(args) < 0)
        /\ ret.raised \in {"None", "ValueError"}

(* C2: whenever check_attribute_positions returns, the returned start is
   attr_pos_start, or 1 if it was None, and the returned end is attr_pos_end,
   or max_length if it was None or greater than max_length. *)
C2_ReturnsDefaultedStartAndCappedEnd ==
    (op = "check_attribute_positions" /\ ret.raised = "None") =>
        ret.value = <<EffectiveStart(args), EffectiveEnd(args)>>

C2_Witness ==
    /\ op = "check_attribute_positions"
    /\ ret.raised = "None"
    /\ IsNone(args.attr_pos_start)
    /\ ~IsNone(args.attr_pos_end)
    /\ ValueOf(args.attr_pos_end) > args.max_length

(* C3: the registry's identifiers are the four built-in ones together with
   every identifier ever registered, each exactly once, list_step_scores
   returns exactly these, and each registered identifier maps to the function
   of its most recent registration, each untouched built-in to its own. *)
C3_RegistryIsBuiltinsPlusRegisteredLatestWins ==
    /\ KeySet(STEP_SCORES_MAP) = BuiltinIdentifiers \cup DOMAIN registered
    /\ Len(STEP_SCORES_MAP) = Cardinality(KeySet(STEP_SCORES_MAP))
    /\ \A id \in DOMAIN registered : DictGet(STEP_SCORES_MAP, id) = registered[id]
    /\ \A i \in DOMAIN InitialStepScoresMap :
           InitialStepScoresMap[i].k \notin DOMAIN registered =>
               DictGet(STEP_SCORES_MAP, InitialStepScoresMap[i].k) = InitialStepScoresMap[i].v
    /\ op = "list_step_scores" =>
           /\ SeqToSet(ret.value.items) = BuiltinIdentifiers \cup DOMAIN registered
           /\ Len(ret.value.items) = Cardinality(SeqToSet(ret.value.items))

C3_Witness ==
    /\ op = "list_step_scores"
    /\ DOMAIN registered = {"probability", "custom1"}
    /\ registered["probability"] = "fn2"
    /\ Len(ret.value.items) = Cardinality(BuiltinIdentifiers) + 1

(* C4: extract_args raises AttributeError if and only if at least one name
   in step_scores is not a key of the registry at the time of the call; so a
   name is accepted once it is registered, and an empty list never raises. *)
C4_RaisesIffUnknownStepScore ==
    op = "extract_args" =>
        /\ (ret.raised = "AttributeError") <=>
               (\E i \in DOMAIN args.step_scores : ~DictHas(STEP_SCORES_MAP, args.step_scores[i]))
        /\ ret.raised \in {"None", "AttributeError"}

C4_Witness ==
    /\ op = "extract_args"
    /\ ret.raised = "None"
    /\ "custom1" \in SeqToSet(args.step_scores)
    /\ "custom1" \in DOMAIN registered

(* C5: only register_step_score changes the registry: every other operation,
   a caller's change to the list list_step_scores returned included, leaves
   its keys and values as they were. *)
C5_OnlyRegisterMutatesRegistry ==
    [][op' # "register_step_score" => STEP_SCORES_MAP' = STEP_SCORES_MAP]_vars

C5_Witness ==
    /\ op = "caller_mutates_list"
    /\ Len(ret.value.items) < Len(STEP_SCORES_MAP)
    /\ DOMAIN registered # {}

(* target_ids with a second dimension of size 1 *)
TargetIds2D(a) == Tensor("", "target_ids", <<a.target_ids.shape[1], 1>>)

(* C6: for an encoder-decoder batch, inputs + additional_forward_args is
   always (source input, target input embeds, source ids, target ids,
   target_ids made 2D, attributed_fn, source attention mask, target attention
   mask, not is_layer_attribution, list of attributed_fn_args keys, the
   attributed_fn_args values), whatever attribute_target is; attribute_target
   only decides whether inputs holds one element or two. *)
C6_LayoutIndependentOfAttributeTarget ==
    (op = "format_attribute_args" /\ args.is_encoder_decoder) =>
        /\ ret.value.inputs \o ret.value.additional_forward_args =
               << IF args.is_layer_attribution
                  THEN args.batch.sources.input_ids ELSE args.batch.sources.input_embeds,
                  args.batch.targets.input_embeds,
                  args.batch.sources.input_ids,
                  args.batch.targets.input_ids,
                  TargetIds2D(args),
                  Callable(args.attributed_fn),
                  args.batch.sources.attention_mask,
                  args.batch.targets.attention_mask,
                  Bool(~args.is_layer_attribution),
                  ListOf([i \in DOMAIN args.attributed_fn_args |-> args.attributed_fn_args[i].k]) >>
               \o [i \in DOMAIN args.attributed_fn_args |-> args.attributed_fn_args[i].v]
        /\ Len(ret.value.inputs) = IF args.attribute_target THEN 2 ELSE 1

C6_Witness ==
    /\ op = "format_attribute_args"
    /\ args.is_encoder_decoder
    /\ ~args.attribute_target
    /\ Len(args.attributed_fn_args) = 2
    /\ ret.value.additional_forward_args[1] = args.batch.targets.input_embeds

(* The baseline tensor that stands for an input tensor. *)
BaselineFor(input) ==
    [input EXCEPT !.name = IF input.name = "input_ids" THEN "baseline_ids" ELSE "baseline_embeds"]

(* C8: the result holds 'baselines' if and only if use_baseline is true;
   when present it has the length of 'inputs' (2 only for an encoder-decoder
   batch with attribute_target, otherwise 1) and its i-th element is the
   baseline of the i-th input; for a decoder-only batch attribute_target has
   no effect on the result. *)
C8_BaselinesAlignedWithInputs ==
    op = "format_attribute_args" =>
        /\ ("baselines" \in DOMAIN ret.value) <=> args.use_baseline
        /\ Len(ret.value.inputs) =
               IF args.is_encoder_decoder /\ args.attribute_target THEN 2 ELSE 1
        /\ \A i \in DOMAIN ret.value.inputs :
               ret.value.inputs[i].name \in {"input_ids", "input_embeds"}
        /\ args.use_baseline =>
               /\ Len(ret.value.baselines) = Len(ret.value.inputs)
               /\ \A i \in DOMAIN ret.value.inputs :
                      ret.value.baselines[i] = BaselineFor(ret.value.inputs[i])
        /\ ~args.is_encoder_decoder =>
               /\ ret.value.inputs =
                      << IF args.is_layer_attribution
                         THEN args.batch.input_ids ELSE args.batch.input_embeds >>
               /\ ret.value.additional_forward_args =
                      << args.batch.input_ids,
                         TargetIds2D(args),
                         Callable(args.attributed_fn),
                         args.batch.attention_mask,
                         Bool(~args.is_layer_attribution),
                         ListOf([i \in DOMAIN args.attributed_fn_args |->
                                    args.attributed_fn_args[i].k]) >>
                      \o [i \in DOMAIN args.attributed_fn_args |-> args.attributed_fn_args[i].v]

C8_Witness ==
    /\ op = "format_attribute_args"
    /\ args.use_baseline
    /\ args.is_encoder_decoder
    /\ args.attribute_target
    /\ ~args.is_layer_attribution
    /\ ret.value.baselines =
           <<args.batch.sources.baseline_embeds, args.batch.targets.baseline_embeds>>

(* 0 <= start <= step + 1 <= end <= len(sequence), for every sequence *)
SplitInRange(a) ==
    \A i \in DOMAIN a.targets :
        /\ 0 <= a.start
        /\ a.start <= a.step + 1
        /\ a.step + 1 <= a.end
        /\ a.end <= Len(a.targets[i])

(* C9: for start, step, end in range, the four slices handed over for
   stringification are [0:start], [start:step+1], [step+1:end], [end:len] of
   every sequence: pairwise disjoint, in order, concatenating to the sequence;
   the first three calls stringify as targets. *)
C9_SlicesPartitionEverySequence ==
    (op = "get_split_targets" /\ SplitInRange(args)) =>
        /\ \A c \in 1 .. 4 : DOMAIN ret.value[c].tokens = DOMAIN args.targets
        /\ \A i \in DOMAIN args.targets :
               LET slice(c) == ret.value[c].tokens[i]
               IN  /\ slice(1) \o slice(2) \o slice(3) \o slice(4) = args.targets[i]
                   /\ Len(slice(1)) = args.start
                   /\ Len(slice(2)) = args.step + 1 - args.start
                   /\ Len(slice(3)) = args.end - (args.step + 1)
                   /\ Len(slice(4)) = Len(args.targets[i]) - args.end
                   /\ \A c, d \in 1 .. 4 :
                          c # d => SeqToSet(slice(c)) \cap SeqToSet(slice(d)) = {}
        /\ \A c \in 1 .. 3 : ret.value[c].as_targets

C9_Witness ==
    /\ op = "get_split_targets"
    /\ SplitInRange(args)
    /\ Len(args.targets) = 2
    /\ 0 < args.start
    /\ args.start < args.step + 1
    /\ args.step + 1 < args.end
    /\ Len(ret.value[4].tokens[1]) # Len(ret.value[4].tokens[2])

(* The free keyword arguments of an extract_args call and those its warning
   names. *)
FreeKwargsOf(a) == KeySet(a.kwargs) \ ReservedKwargs

ReportedUnused == IF ret.value.warning = <<>> THEN {} ELSE KeySet(ret.value.warning[1])

(* C7 as stated: a free keyword argument is reported if and only if the
   attribution method did not extract it, the attributed function's signature
   does not match it and no requested step-score function's signature matches
   it; the warning is emitted exactly when there is such an argument. *)
C7_ReportedIffMatchedByNoSignature ==
    op = "extract_args" =>
        LET consumed_by_none ==
                {key \in FreeKwargsOf(args) :
                    /\ key \notin Signature(args.attribution_method)
                    /\ key \notin Signature(args.attributed_fn)
                    /\ \A i \in DOMAIN args.step_scores :
                           DictHas(STEP_SCORES_MAP, args.step_scores[i]) =>
                               key \notin Signature(DictGet(STEP_SCORES_MAP, args.step_scores[i]))}
            reported == IF ret.raised = "None" THEN ReportedUnused ELSE {}
        IN  reported = consumed_by_none

(* C7 as amended: when extract_args returns, a free keyword argument is
   reported if and only if the attribution method did not extract it and
   neither the attributed function nor any requested step-score function took
   it, a function taking an argument when its signature names it and
   default_args does not; the warning is emitted exactly when there is such an
   argument, and the three reserved dicts are never forwarded or reported. *)
C7_ReportedIffTakenByNone ==
    (op = "extract_args" /\ ret.raised = "None") =>
        LET Takes(func, key) ==
                key \in Signature(func) /\ key \notin SeqToSet(args.default_args)
            taken_by_none ==
                {key \in FreeKwargsOf(args) :
                    /\ key \notin Signature(args.attribution_method)
                    /\ ~Takes(args.attributed_fn, key)
                    /\ \A i \in DOMAIN args.step_scores :
                           ~Takes(DictGet(STEP_SCORES_MAP, args.step_scores[i]), key)}
        IN  /\ ReportedUnused = taken_by_none
            /\ (ret.value.warning # <<>>) <=> (taken_by_none # {})
            /\ ReservedKwargs \cap (KeySet(ret.value.attribution_args)
                                    \cup KeySet(ret.value.attributed_fn_args)
                                    \cup KeySet(ret.value.step_scores_args)) = {}

C7_Witness ==
    /\ op = "extract_args"
    /\ ret.raised = "None"
    /\ ReservedKwargs \subseteq KeySet(args.kwargs)
    /\ "custom1" \in SeqToSet(args.step_scores)
    /\ "target_ids" \in Signature(args.attributed_fn)
    /\ ReportedUnused = {"target_ids"}

====
